---- MODULE Spec2Model ----
(***************************************************************************)
(* Model of the AeroVision motion core (src/src/motor_controller.py) and   *)
(* of the Home action of the manual control panel (src/src/manual_gui.py). *)
(*                                                                         *)
(* Lengths are integers counting 1/UnitsPerMm of a millimetre.  With the   *)
(* resolution a power of two every length of the model is a binary         *)
(* fraction, which a Python float holds exactly, so the float arithmetic   *)
(* of the source (mm * steps_per_mm, position += mm, x_mm - position) is   *)
(* exact on these inputs and equals the rational arithmetic used here.     *)
(***************************************************************************)
EXTENDS Integers, Sequences, FiniteSets

\* ---------------------------------------------------------------- bounds
\* Length resolution: one unit is 1/UnitsPerMm mm.
UnitsPerMm == 2
\* Positions and targets range over 0..MaxPos units.
MaxPos == 2
\* Cap on |issued - position| (units), which grows without bound otherwise.
MaxDrift == 1
\* Largest count of raw steps asked for in one go.
MaxRaw == 2

\* ------------------------------------------------------------- constants
DefaultStepsPerMmX == 80
DefaultStepsPerMmZ == 100

FORWARD == "FORWARD"
BACKWARD == "BACKWARD"
None == "None"

Motors == {"x_left", "x_right", "z_axis"}

\* The stepperN attributes the MotorKit object is taken to expose.
KitSteppers == {1, 2, 3}

\* Configurations: calibration blocks and motor-name-to-channel maps.
Calibrations ==
    { [steps_per_mm_x |-> DefaultStepsPerMmX, steps_per_mm_z |-> DefaultStepsPerMmZ],
      [steps_per_mm_x |-> 5, steps_per_mm_z |-> 2],
      [steps_per_mm_x |-> 1, steps_per_mm_z |-> 1] }

ChannelMaps ==
    { [n \in Motors |-> CASE n = "x_left" -> 1 [] n = "x_right" -> 2 [] OTHER -> 3],
      [n \in Motors |-> CASE n = "x_left" -> 1 [] n = "x_right" -> 2 [] OTHER -> 4],
      [n \in Motors |-> CASE n = "x_left" -> 1 [] n = "x_right" -> 5 [] OTHER -> 3],
      [n \in {"x_left", "x_right"} |-> IF n = "x_left" THEN 1 ELSE 2] }

Travel == 0..MaxPos
Distances == (0 - MaxPos)..MaxPos

\* ------------------------------------------------------------- functions
Abs(n) == IF n < 0 THEN 0 - n ELSE n

\* Variant: ties rounded up instead of to the even integer.
RoundHalfUp(num, den) == (2 * num + den) \div (2 * den)

\* Python 3 round() of the rational num/den (den > 0): nearest integer,
\* ties to the even one.
Round(num, den) ==
    LET q == num \div den
        r == num - q * den
    IN  IF 2 * r < den THEN q
        ELSE IF 2 * r > den THEN q + 1
        ELSE IF q % 2 = 0 THEN q ELSE q + 1

\* int(round(mm * steps_per_mm)) for mm given in units.
StepsFor(mm, steps_per_mm) == Round(mm * steps_per_mm, UnitsPerMm)

\* Variant: the two directions exchanged.
DirectionOfForward(steps) == FORWARD
DirectionOfSwapped(steps) == IF steps > 0 THEN BACKWARD ELSE FORWARD

DirectionOf(steps) == IF steps > 0 THEN FORWARD ELSE BACKWARD

\* _init_steppers: a configured name resolves to the kit's stepper object
\* when the hardware library is present and the kit has the attribute.
InitSteppers(real, channels) ==
    [name \in DOMAIN channels |->
        IF real /\ channels[name] \in KitSteppers THEN "stepper" ELSE None]

\* Motor lists handed to _step_multiple by the moves.
XMotorsLeftOnly == <<"x_left">>
XMotors == <<"x_left", "x_right">>
ZMotors == <<"z_axis">>

\* ----------------------------------------------------------------- state
VARIABLES
    REAL_HARDWARE,   \* the hardware libraries were imported
    steppers,        \* self.steppers: name -> "stepper" or None
    steps_per_mm_x,  \* self.steps_per_mm_x
    steps_per_mm_z,  \* self.steps_per_mm_z
    position,        \* self.position, [x, z] in units
    pc,              \* where the running call stands ("idle": none running)
    mm,              \* argument of move_x / move_z (units)
    x_mm, z_mm,      \* arguments of move_to (units)
    trip,            \* move_x / move_z called with the opposite of the distance
                     \* of the call before, which returned: where that one began
    again,           \* move_to called with the target of the call before, a
                     \* move_to which returned
    steps,           \* move_x / move_z: signed step count
    i,               \* move_x / move_z: iterations of the for loop done
    sx, sz,          \* move_to: per-axis direction
    x_steps, z_steps,\* move_to: absolute step counts
    err, e2,         \* move_to: error accumulator and its double
    x, z,            \* move_to: step groups emitted so far per axis
    \* observation of the current (or last) call
    op,              \* the operation called last
    pre,             \* position when it was called
    outcome,         \* "none", "running", "returned" or "raised"
    xGroups, zGroups,\* _step_multiple calls made with XMotors / ZMotors
    waits,           \* time.sleep calls made
    calls,           \* per motor: _step_motor calls made
    phys,            \* per motor: onestep calls that moved the motor
    stubs,           \* per motor: [STUB] lines printed
    failures,        \* onestep calls that raised
    lastGroup,       \* motors _step_motor was called on in the last group
    lastDir,         \* direction of the last group
    trace,           \* the motor steps made and the waits, in order
    iters,           \* move_to: iterations of the while loop entered
    afterStop,       \* the call was made after E-STOP had been pressed
    steppedX,        \* move_to: the X branch fired in this iteration
    \* bookkeeping since construction or the last Home
    issued,          \* sum of the deltas of the calls that returned
    committed,       \* sum of the deltas of the calls that moved position
    \* the manual control panel
    widgets,         \* state option of each button and of the spinbox
    step_size,       \* self.step_size (units)
    estopped,        \* E-STOP has been pressed
    \* the test console and the motor test panel
    motor,           \* the motor selected
    step_direction   \* the direction of the raw steps

config == <<REAL_HARDWARE, steppers, steps_per_mm_x, steps_per_mm_z>>
args == <<mm, x_mm, z_mm, trip, again>>
axisLocals == <<steps, i>>
toLocals == <<sx, sz, x_steps, z_steps, err, e2, x, z, steppedX>>
driver == <<xGroups, zGroups, waits, calls, phys, stubs, failures, lastGroup, lastDir,
           trace, iters, afterStop>>
panel == <<widgets, step_size, estopped>>
rawArgs == <<motor, step_direction>>
sums == <<issued, committed>>
vars == <<config, position, pc, args, axisLocals, toLocals, op, pre, outcome,
          driver, sums, panel, rawArgs>>

Zero == [x |-> 0, z |-> 0]

\* The widgets of the manual control panel that take a state option, and
\* the frame each was created in; the four frames are the children of
\* the window.
NORMAL == "normal"
DISABLED == "disabled"
Frames == {"step_frame", "x_frame", "z_frame", "ctrl_frame"}
Buttons == {"btn_left", "btn_right", "btn_up", "btn_down", "btn_home", "btn_estop",
            "btn_load"}
WidgetParent ==
    [w \in Frames \cup Buttons \cup {"spinbox"} |->
        IF w \in Frames THEN "root"
        ELSE IF w = "spinbox" THEN "step_frame"
        ELSE IF w \in {"btn_left", "btn_right"} THEN "x_frame"
        ELSE IF w \in {"btn_up", "btn_down"} THEN "z_frame"
        ELSE "ctrl_frame"]
WidgetClass ==
    [w \in Frames \cup Buttons \cup {"spinbox"} |->
        IF w \in {"step_frame", "ctrl_frame"} THEN "Frame"
        ELSE IF w \in {"x_frame", "z_frame"} THEN "LabelFrame"
        ELSE IF w = "spinbox" THEN "Spinbox"
        ELSE "Button"]
Controls == {w \in DOMAIN WidgetClass : WidgetClass[w] \in {"Button", "Spinbox"}}
\* `tk.DoubleVar(value=1.0)`
InitialStepSize == UnitsPerMm
\* Values of the spinbox (0.1 to 100.0 mm) within the travel.
StepSizes == 1..MaxPos
NoTrip == [on |-> FALSE, start |-> Zero]
NoCount == [m \in Motors |-> 0]

\* Events of the trace: one step of a motor in a direction (on the
\* hardware or as a stub line), and one time.sleep(step_delay).
StepEvent(m, direction) == <<m, direction>>
WaitEvent == <<"wait", None>>

\* ------------------------------------------------------- hardware layer
\* self.steppers.get(name): None for a name the map does not hold.
StepperGet(name) == IF name \in DOMAIN steppers THEN steppers[name] ELSE None

\* Variant: the stepper object is not tested before it is driven.
PhysicalUntested(name) == REAL_HARDWARE

\* _step_motor drives the hardware only for a resolved motor.
Physical(name) == REAL_HARDWARE /\ StepperGet(name) # None

\* Outcomes of one _step_multiple(names, direction): 0 when every call
\* returns, k when the onestep of names[k] raises (a stub never raises).
GroupOutcomes(names) == {0} \cup {k \in 1..Len(names) : Physical(names[k])}

\* Variant: the exception is swallowed and the move goes on.
Swallowed(fail) == FALSE

\* An exception of onestep is caught nowhere in the core: it leaves
\* _step_motor, _step_multiple and the move.
Raised(fail) == fail # 0

Occurs(m, names, n) == Cardinality({k \in 1..n : names[k] = m})

\* Variant: the sleep indented into the for loop, one after each motor.
GroupEventsWaitEach(names, direction, fail) ==
    LET done == IF fail = 0 THEN Len(names) ELSE fail - 1
    IN  [k \in 1..(2 * done) |->
           IF k % 2 = 1 THEN StepEvent(names[(k + 1) \div 2], direction) ELSE WaitEvent]

\* The events of one _step_multiple(names, direction): the steps of the
\* motors whose _step_motor returned, in the order of names, then the
\* sleep when none raised.
GroupEvents(names, direction, fail) ==
    LET done == IF fail = 0 THEN Len(names) ELSE fail - 1
    IN  [k \in 1..done |-> StepEvent(names[k], direction)]
           \o (IF fail = 0 THEN <<WaitEvent>> ELSE << >>)

\* The effect of one _step_multiple(names, direction) on the driver side.
\* `done` motors had their _step_motor return; the sleep follows only
\* when all of them did.
StepMultiple(names, direction, fail) ==
    LET called == IF fail = 0 THEN Len(names) ELSE fail
        done == IF fail = 0 THEN Len(names) ELSE fail - 1
    IN  /\ calls' = [m \in Motors |-> calls[m] + Occurs(m, names, called)]
        /\ phys' = [m \in Motors |->
                      IF Physical(m) THEN phys[m] + Occurs(m, names, done) ELSE phys[m]]
        /\ stubs' = [m \in Motors |->
                      IF Physical(m) THEN stubs[m] ELSE stubs[m] + Occurs(m, names, done)]
        /\ failures' = IF fail = 0 THEN failures ELSE failures + 1
        /\ waits' = IF fail = 0 THEN waits + 1 ELSE waits
        /\ lastGroup' = SubSeq(names, 1, called)
        /\ lastDir' = direction
        /\ trace' = trace \o GroupEvents(names, direction, fail)
        /\ iters' = iters
        /\ afterStop' = afterStop
        /\ xGroups' = IF names = XMotors THEN xGroups + 1 ELSE xGroups
        /\ zGroups' = IF names = ZMotors THEN zGroups + 1 ELSE zGroups

\* ------------------------------------------------------------------ Init
IdleLocals ==
    /\ mm = 0 /\ x_mm = 0 /\ z_mm = 0 /\ trip = NoTrip /\ again = FALSE
    /\ steps = 0 /\ i = 0
    /\ sx = None /\ sz = None /\ x_steps = 0 /\ z_steps = 0
    /\ err = 0 /\ e2 = 0 /\ x = 0 /\ z = 0 /\ steppedX = FALSE

Init ==
    /\ REAL_HARDWARE \in BOOLEAN
    /\ \E cal \in Calibrations :
          /\ steps_per_mm_x = cal.steps_per_mm_x
          /\ steps_per_mm_z = cal.steps_per_mm_z
    /\ \E channels \in ChannelMaps : steppers = InitSteppers(REAL_HARDWARE, channels)
    /\ position = Zero
    /\ pc = "idle"
    /\ IdleLocals
    /\ op = "none" /\ pre = Zero /\ outcome = "none"
    /\ xGroups = 0 /\ zGroups = 0 /\ waits = 0
    /\ calls = NoCount /\ phys = NoCount /\ stubs = NoCount
    /\ failures = 0 /\ lastGroup = << >> /\ lastDir = None /\ trace = << >>
    /\ iters = 0 /\ afterStop = FALSE
    /\ widgets = [w \in Controls |-> NORMAL]
    /\ step_size = InitialStepSize
    /\ estopped = FALSE
    /\ motor = None /\ step_direction = None
    /\ issued = Zero /\ committed = Zero

\* A call starts: the observation of the previous call is cleared.
Begin(name) ==
    /\ op' = name
    /\ pre' = position
    /\ xGroups' = 0 /\ zGroups' = 0 /\ waits' = 0
    /\ calls' = NoCount /\ phys' = NoCount /\ stubs' = NoCount
    /\ failures' = 0 /\ lastGroup' = << >> /\ lastDir' = None /\ trace' = << >>
    /\ iters' = 0 /\ afterStop' = estopped

\* The frame of the call is gone once it returned or raised.
ClearLocals ==
    /\ steps' = 0 /\ i' = 0
    /\ sx' = None /\ sz' = None /\ x_steps' = 0 /\ z_steps' = 0
    /\ err' = 0 /\ e2' = 0 /\ x' = 0 /\ z' = 0 /\ steppedX' = FALSE

\* Variant: the position update runs on the way out, as in a `finally`.
PropagateCommitting ==
    /\ pc' = "idle"
    /\ outcome' = "raised"
    /\ ClearLocals
    /\ position' = IF op = "move_to" THEN [x |-> x_mm, z |-> z_mm]
                   ELSE IF op = "move_x" THEN [position EXCEPT !.x = @ + mm]
                   ELSE [position EXCEPT !.z = @ + mm]
    /\ UNCHANGED <<config, panel, rawArgs, args, op, pre, sums>>

\* The exception leaves the move: nothing after the failing call runs.
Propagate ==
    /\ pc' = "idle"
    /\ outcome' = "raised"
    /\ ClearLocals
    /\ UNCHANGED <<config, panel, rawArgs, position, args, op, pre, sums>>

Return ==
    /\ pc' = "idle"
    /\ outcome' = "returned"
    /\ ClearLocals

\* ------------------------------------------------- move_x and move_z
StepsPerMm(axis) == IF axis = "x" THEN steps_per_mm_x ELSE steps_per_mm_z
AxisMotors(axis) == IF axis = "x" THEN XMotors ELSE ZMotors
AxisPc(axis) == IF axis = "x" THEN "move_x" ELSE "move_z"

\* Variant: no early return.
NeverReturnsEarly(n) == FALSE

\* `if steps == 0: return`
ReturnsEarly(n) == n = 0

\* Variant: the distance assigned instead of added.
AxisCommitAssign(old, d) == d

\* `self.position[axis] += mm`
AxisCommit(old, d) == old + d

\* The call up to the for loop: the step count, and the early return.
MoveAxisCall(axis, d) ==
    /\ pc = "idle"
    /\ position[axis] + d \in Travel
    /\ Begin(AxisPc(axis))
    /\ mm' = d /\ x_mm' = 0 /\ z_mm' = 0
    /\ trip' = IF op = AxisPc(axis) /\ outcome = "returned" /\ mm = 0 - d /\ d # 0
               THEN [on |-> TRUE, start |-> pre]
               ELSE NoTrip
    /\ again' = FALSE
    /\ LET n == StepsFor(d, StepsPerMm(axis))
       IN  IF ReturnsEarly(n)
           THEN /\ Abs(issued[axis] + d - position[axis]) <= MaxDrift
                /\ issued' = [issued EXCEPT ![axis] = @ + d]
                /\ Return
                /\ UNCHANGED <<config, panel, rawArgs, position, committed>>
           ELSE /\ pc' = AxisPc(axis)
                /\ outcome' = "running"
                /\ steps' = n
                /\ i' = 0
                /\ UNCHANGED <<config, panel, rawArgs, position, toLocals, sums>>

\* One iteration of `for _ in range(abs(steps))`.
MoveAxisStep(axis) ==
    /\ pc = AxisPc(axis)
    /\ i < Abs(steps)
    /\ \E fail \in GroupOutcomes(AxisMotors(axis)) :
          /\ StepMultiple(AxisMotors(axis), DirectionOf(steps), fail)
          /\ IF Raised(fail)
             THEN Propagate
             ELSE /\ i' = i + 1
                  /\ UNCHANGED <<config, panel, rawArgs, position, pc, args, steps, toLocals,
                                 op, pre, outcome, sums>>

\* The loop is exhausted: the position update and the return.
MoveAxisCommit(axis) ==
    /\ pc = AxisPc(axis)
    /\ i >= Abs(steps)
    /\ position' = [position EXCEPT ![axis] = AxisCommit(@, mm)]
    /\ issued' = [issued EXCEPT ![axis] = @ + mm]
    /\ committed' = [committed EXCEPT ![axis] = @ + mm]
    /\ Return
    /\ UNCHANGED <<config, panel, rawArgs, args, op, pre, driver>>

MoveXCall == \E d \in Distances : MoveAxisCall("x", d)
MoveXStep == MoveAxisStep("x")
MoveXCommit == MoveAxisCommit("x")
MoveZCall == \E d \in Distances : MoveAxisCall("z", d)
MoveZStep == MoveAxisStep("z")
MoveZCommit == MoveAxisCommit("z")

\* ------------------------------------------------------------ move_to
\* Variant: the accumulator seeded with the opposite sign.
ErrInitSwapped(xs, zs) == zs - xs

\* `err = x_steps - z_steps`
ErrInit(xs, zs) == xs - zs

\* Variant: `and` in place of `or`.
LoopCondAnd(xdone, zdone, xs, zs) == xdone < xs /\ zdone < zs

\* `while x < x_steps or z < z_steps`
LoopCond(xdone, zdone, xs, zs) == xdone < xs \/ zdone < zs

\* `if x < x_steps and e2 > -z_steps`
XBranch(xdone, xs, zs, twice) == xdone < xs /\ twice > 0 - zs

\* Variant: the accumulator test of the Z branch left out.
ZBranchUntested(zdone, xs, zs, twice) == zdone < zs

\* `if z < z_steps and e2 < x_steps`
ZBranch(zdone, xs, zs, twice) == zdone < zs /\ twice < xs

\* Variant: the targets added to the position, as if they were distances.
ToCommitDelta(old, tx, tz) == [x |-> old.x + tx, z |-> old.z + tz]

\* Variant: the z assignment left out.
ToCommitXOnly(old, tx, tz) == [x |-> tx, z |-> old.z]

\* Variant: only an axis that was off target by a whole unit is assigned.
ToCommitCoarse(old, tx, tz) ==
    [x |-> IF Abs(tx - old.x) > 1 THEN tx ELSE old.x, z |-> tz]

\* `self.position["x"] = x_mm; self.position["z"] = z_mm`
ToCommit(old, tx, tz) == [x |-> tx, z |-> tz]

\* The call up to the while loop.
\* Variant: the target taken for the distance.
DeltaIsTarget(target, current) == target

\* `dx = x_mm - self.position["x"]`, `dz = z_mm - self.position["z"]`
Delta(target, current) == target - current

MoveToCall ==
    \E tx \in Travel, tz \in Travel :
       /\ pc = "idle"
       /\ Begin("move_to")
       /\ mm' = 0 /\ x_mm' = tx /\ z_mm' = tz /\ trip' = NoTrip
       /\ again' = (op = "move_to" /\ outcome = "returned" /\ x_mm = tx /\ z_mm = tz)
       /\ LET xs == StepsFor(Delta(tx, position.x), steps_per_mm_x)
              zs == StepsFor(Delta(tz, position.z), steps_per_mm_z)
          IN  /\ sx' = DirectionOf(xs)
              /\ sz' = DirectionOf(zs)
              /\ x_steps' = Abs(xs)
              /\ z_steps' = Abs(zs)
              /\ err' = ErrInit(Abs(xs), Abs(zs))
       /\ x' = 0 /\ z' = 0 /\ e2' = 0 /\ steppedX' = FALSE
       /\ pc' = "mt_while"
       /\ outcome' = "running"
       /\ UNCHANGED <<config, panel, rawArgs, position, axisLocals, sums>>

\* The loop test: another iteration (e2 = err * 2), or the position
\* update and the return.
MoveToWhile ==
    /\ pc = "mt_while"
    /\ IF LoopCond(x, z, x_steps, z_steps)
       THEN /\ e2' = err * 2
            /\ steppedX' = FALSE
            /\ iters' = iters + 1
            /\ pc' = "mt_x"
            /\ UNCHANGED <<config, panel, rawArgs, position, args, axisLocals, sx, sz, x_steps,
                           z_steps, err, x, z, op, pre, outcome, sums>>
            /\ UNCHANGED <<xGroups, zGroups, waits, calls, phys, stubs, failures,
                           lastGroup, lastDir, trace, afterStop>>
       ELSE /\ position' = ToCommit(position, x_mm, z_mm)
            /\ issued' = [x |-> issued.x + (x_mm - position.x),
                          z |-> issued.z + (z_mm - position.z)]
            /\ committed' = [x |-> committed.x + (x_mm - position.x),
                             z |-> committed.z + (z_mm - position.z)]
            /\ Return
            /\ UNCHANGED <<config, panel, rawArgs, args, op, pre, driver>>

\* The X branch of the iteration.
MoveToX ==
    /\ pc = "mt_x"
    /\ IF XBranch(x, x_steps, z_steps, e2)
       THEN \E fail \in GroupOutcomes(XMotors) :
               /\ StepMultiple(XMotors, sx, fail)
               /\ IF Raised(fail)
                  THEN Propagate
                  ELSE /\ err' = err - z_steps
                       /\ x' = x + 1
                       /\ steppedX' = TRUE
                       /\ pc' = "mt_z"
                       /\ UNCHANGED <<config, panel, rawArgs, position, args, axisLocals, sx, sz,
                                      x_steps, z_steps, e2, z, op, pre, outcome, sums>>
       ELSE /\ pc' = "mt_z"
            /\ UNCHANGED <<config, panel, rawArgs, position, args, axisLocals, toLocals, op, pre,
                           outcome, driver, sums>>

\* The Z branch of the iteration, then back to the loop test.
MoveToZ ==
    /\ pc = "mt_z"
    /\ IF ZBranch(z, x_steps, z_steps, e2)
       THEN \E fail \in GroupOutcomes(ZMotors) :
               /\ StepMultiple(ZMotors, sz, fail)
               /\ IF Raised(fail)
                  THEN Propagate
                  ELSE /\ err' = err + x_steps
                       /\ z' = z + 1
                       /\ pc' = "mt_while"
                       /\ UNCHANGED <<config, panel, rawArgs, position, args, axisLocals, sx, sz,
                                      x_steps, z_steps, e2, x, steppedX, op, pre,
                                      outcome, sums>>
       ELSE /\ pc' = "mt_while"
            /\ UNCHANGED <<config, panel, rawArgs, position, args, axisLocals, toLocals, op, pre,
                           outcome, driver, sums>>

\* ------------------------------------------------ manual panel: Home
\* Variant: only x is reset.
HomePositionXOnly(old) == [x |-> 0, z |-> old.z]

\* `self.mc.position = {'x': 0.0, 'z': 0.0}`
HomePosition(old) == Zero

\* ManualControlApp._home: the position is reset, no motor is driven.
Home ==
    /\ pc = "idle"
    /\ widgets["btn_home"] = NORMAL
    /\ Begin("home")
    /\ position' = HomePosition(position)
    /\ issued' = Zero
    /\ committed' = Zero
    /\ mm' = 0 /\ x_mm' = 0 /\ z_mm' = 0 /\ trip' = NoTrip /\ again' = FALSE
    /\ Return
    /\ UNCHANGED <<config, panel, rawArgs>>

\* ------------------------------- manual panel: jog, step size, E-STOP
\* The jog buttons: `self._move_x(-self.step_size.get())` and the like. A
\* callback runs when the window is idle and the button takes clicks.
Jog(button, axis, sign) ==
    /\ widgets[button] = NORMAL
    /\ MoveAxisCall(axis, sign * step_size)

JogLeft == Jog("btn_left", "x", -1)
JogRight == Jog("btn_right", "x", 1)
JogUp == Jog("btn_up", "z", 1)
JogDown == Jog("btn_down", "z", -1)

\* The user sets another step size in the spinbox.
SpinSet ==
    /\ pc = "idle"
    /\ widgets["spinbox"] = NORMAL
    /\ \E s \in StepSizes \ {step_size} : step_size' = s
    /\ UNCHANGED <<config, rawArgs, position, pc, args, axisLocals, toLocals, op, pre,
                   outcome, driver, sums, widgets, estopped>>

\* `self.winfo_children()`: the widgets created with this parent.
WinfoChildren(parent) == {w \in DOMAIN WidgetParent : WidgetParent[w] = parent}

\* `isinstance(child, tk.Button) or isinstance(child, tk.Spinbox)`
IsButtonOrSpinbox(w) == WidgetClass[w] \in {"Button", "Spinbox"}

\* ManualControlApp._emergency_stop: the loop over the children of the
\* window, then the warning.
EStop ==
    /\ pc = "idle"
    /\ widgets["btn_estop"] = NORMAL
    /\ widgets' = [w \in DOMAIN widgets |->
                     IF w \in WinfoChildren("root") /\ IsButtonOrSpinbox(w)
                     THEN DISABLED ELSE widgets[w]]
    /\ estopped' = TRUE
    /\ UNCHANGED <<config, rawArgs, position, pc, args, axisLocals, toLocals, op, pre,
                   outcome, driver, sums, step_size>>

PanelNext ==
    \/ JogLeft \/ JogRight \/ JogUp \/ JogDown
    \/ MoveXStep \/ MoveXCommit \/ MoveZStep \/ MoveZCommit
    \/ Home \/ SpinSet \/ EStop

\* The manual control panel: the window and the controller it owns.
PanelSpec == Init /\ [][PanelNext]_vars

\* --------------------------- raw stepping: test console, test panel
\* Step counts typed into the console or the entry of the panel.
RawCounts == (0 - MaxRaw)..MaxRaw

\* Variant: a raw step moves the recorded position by one unit.
RawStepPositionTracked(old, m, dir) ==
    LET axis == IF m = "z_axis" THEN "z" ELSE "x"
    IN  [old EXCEPT ![axis] = IF dir = FORWARD THEN @ + 1 ELSE @ - 1]

\* _step_motor and _step_multiple do not write self.position.
RawStepPosition(old, m, dir) == old

\* `mc._step_motor(motor_name, direction)` then `time.sleep(mc.step_delay)`:
\* as a group of one motor, without a _step_multiple call.
StepMotorThenSleep(name, dir, fail) ==
    /\ calls' = [calls EXCEPT ![name] = @ + 1]
    /\ phys' = [phys EXCEPT ![name] = IF Physical(name) /\ fail = 0 THEN @ + 1 ELSE @]
    /\ stubs' = [stubs EXCEPT ![name] = IF Physical(name) THEN @ ELSE @ + 1]
    /\ failures' = IF fail = 0 THEN failures ELSE failures + 1
    /\ waits' = IF fail = 0 THEN waits + 1 ELSE waits
    /\ lastGroup' = <<name>>
    /\ lastDir' = dir
    /\ trace' = trace \o (IF fail = 0 THEN <<StepEvent(name, dir), WaitEvent>> ELSE << >>)
    /\ UNCHANGED <<xGroups, zGroups, iters, afterStop>>

\* One raw call begins: the motor, the count and the direction are read.
RawCall(name, m, n, dir) ==
    /\ pc = "idle"
    /\ Begin(name)
    /\ motor' = m
    /\ step_direction' = dir
    /\ steps' = n
    /\ i' = 0
    /\ pc' = name
    /\ outcome' = "running"
    /\ UNCHANGED <<config, panel, position, args, toLocals, sums>>

\* The loop is exhausted: the status line, nothing else.
RawDone(name) ==
    /\ pc = name
    /\ i >= Abs(steps)
    /\ Return
    /\ UNCHANGED <<config, panel, rawArgs, position, args, op, pre, driver, sums>>

\* motor_test.py: a motor of mc.steppers and a signed count are typed in;
\* the direction is taken from the sign.
ConsoleCall ==
    \E m \in DOMAIN steppers, n \in RawCounts :
        RawCall("motor_test", m, n, DirectionOf(n))

\* One iteration of `for _ in range(num_steps)` of the console.
ConsoleStep ==
    /\ pc = "motor_test"
    /\ i < Abs(steps)
    /\ \E fail \in GroupOutcomes(<<motor>>) :
          /\ StepMotorThenSleep(motor, step_direction, fail)
          /\ IF Raised(fail)
             THEN Propagate
             ELSE /\ i' = i + 1
                  /\ position' = RawStepPosition(position, motor, step_direction)
                  /\ UNCHANGED <<config, panel, rawArgs, pc, args, steps, toLocals,
                                 op, pre, outcome, sums>>

ConsoleDone == RawDone("motor_test")

\* motor_test_gui.py: Forward or Backward pressed with a motor selected
\* and a count in the entry.
TestPanelCall ==
    \E m \in DOMAIN steppers, n \in RawCounts, dir \in {FORWARD, BACKWARD} :
        RawCall("motor_test_gui", m, n, dir)

\* One iteration of `for _ in range(abs(count))` of the panel.
TestPanelStep ==
    /\ pc = "motor_test_gui"
    /\ i < Abs(steps)
    /\ \E fail \in GroupOutcomes(<<motor>>) :
          /\ StepMultiple(<<motor>>, step_direction, fail)
          /\ IF Raised(fail)
             THEN Propagate
             ELSE /\ i' = i + 1
                  /\ position' = RawStepPosition(position, motor, step_direction)
                  /\ UNCHANGED <<config, panel, rawArgs, pc, args, steps, toLocals,
                                 op, pre, outcome, sums>>

TestPanelDone == RawDone("motor_test_gui")

TestNext ==
    \/ ConsoleCall \/ ConsoleStep \/ ConsoleDone
    \/ TestPanelCall \/ TestPanelStep \/ TestPanelDone

\* The two test tools: each owns a controller and steps motors directly.
TestSpec == Init /\ [][TestNext]_vars

Next ==
    \/ MoveXCall \/ MoveXStep \/ MoveXCommit
    \/ MoveZCall \/ MoveZStep \/ MoveZCommit
    \/ MoveToCall \/ MoveToWhile \/ MoveToX \/ MoveToZ
    \/ Home

Spec == Init /\ [][Next]_vars

\* The core is single-threaded and synchronous: a call that has begun
\* keeps executing (each sleep is finite) until it returns or raises.
\* When the next call is made is up to the caller.
InCall ==
    \/ MoveXStep \/ MoveXCommit
    \/ MoveZStep \/ MoveZCommit
    \/ MoveToWhile \/ MoveToX \/ MoveToZ

FairSpec == Spec /\ WF_vars(InCall)

\* ================================================================ claims
AxisOps == {"move_x", "move_z"}
AxisOf(name) == IF name = "move_x" THEN "x" ELSE "z"
OtherAxis(axis) == IF axis = "x" THEN "z" ELSE "x"
Returned == pc = "idle" /\ outcome = "returned"
\* The signed step count of the axis call observed.
AxisSteps == StepsFor(mm, StepsPerMm(AxisOf(op)))
\* The absolute step counts of the move_to call observed.
ToStepsX == Abs(StepsFor(x_mm - pre.x, steps_per_mm_x))
ToStepsZ == Abs(StepsFor(z_mm - pre.z, steps_per_mm_z))

\* C1: one call of move_to(x, z) emits exactly
\* |round((x - position.x) * steps_per_mm_x)| X step groups and
\* |round((z - position.z) * steps_per_mm_z)| Z step groups: never more
\* while it runs, and exactly as many once it has returned.
C1_MoveToGroupCounts ==
    op = "move_to" =>
        /\ xGroups <= ToStepsX
        /\ zGroups <= ToStepsZ
        /\ Returned => xGroups = ToStepsX /\ zGroups = ToStepsZ

\* move_to(1.0, 0.5) from {0, 0} at 80 and 100 steps/mm has returned
\* after 80 X groups and 50 Z groups.
C1_Witness ==
    /\ op = "move_to" /\ Returned
    /\ steps_per_mm_x = 80 /\ steps_per_mm_z = 100
    /\ pre = Zero /\ x_mm = UnitsPerMm /\ 2 * z_mm = UnitsPerMm
    /\ xGroups = 80 /\ zGroups = 50 /\ xGroups + zGroups = 130

\* Every iteration emits a step group: when the Z branch is reached the
\* X branch has fired or the Z branch is about to.
LoopProgress ==
    /\ pc = "mt_z" => steppedX \/ ZBranch(z, x_steps, z_steps, e2)
    /\ pc \in {"mt_while", "mt_x", "mt_z"} => x <= x_steps /\ z <= z_steps

\* C2: for all step counts, zero ones included, the interleaving loop of
\* move_to terminates: every iteration emits at least one step group,
\* and a move_to that has begun ends, with Position committed to the
\* target unless a driver call raised.
C2_Terminates ==
    /\ []LoopProgress
    /\ (op = "move_to" /\ pc # "idle") ~>
          (/\ op = "move_to" /\ pc = "idle"
           /\ \/ failures > 0
              \/ outcome = "returned" /\ position = [x |-> x_mm, z |-> z_mm])

\* An iteration in which X has steps left but did not fire: the progress
\* rests on the Z branch.
C2_Witness ==
    /\ pc = "mt_z" /\ ~steppedX
    /\ x_steps > 0 /\ x < x_steps /\ z > 0

\* C3: after every completed move_to(target_x_mm, target_z_mm) Position
\* is exactly the target, also on an axis whose step count is zero.
C3_MoveToAssignsTarget ==
    (op = "move_to" /\ Returned) => position = [x |-> x_mm, z |-> z_mm]

\* A move_to off target on x by less than half a step: no X group, and
\* Position.x is the target all the same.
C3_Witness ==
    /\ op = "move_to" /\ Returned
    /\ x_mm # pre.x /\ xGroups = 0 /\ zGroups > 0
    /\ position.x = x_mm

\* C4: a move_x / move_z whose distance rounds to zero steps issues no
\* driver step call, incurs no delay and leaves Position unchanged.
C4_ZeroStepsNoOp ==
    (op \in AxisOps /\ AxisSteps = 0) =>
        /\ Returned
        /\ calls = NoCount /\ phys = NoCount /\ stubs = NoCount
        /\ xGroups = 0 /\ zGroups = 0 /\ waits = 0
        /\ position = pre

\* A non-zero distance that rounds to zero steps.
C4_Witness ==
    /\ op = "move_x" /\ Returned /\ mm # 0 /\ AxisSteps = 0 /\ pre # Zero

\* C5: a move_x / move_z with steps # 0 emits exactly abs(steps) step
\* groups, all Forward if steps > 0 and all Backward if steps < 0; an X
\* group steps x_left and then x_right, a Z group z_axis, and no other.
C5_AxisGroups ==
    (op \in AxisOps /\ AxisSteps # 0) =>
        LET mine == IF op = "move_x" THEN xGroups ELSE zGroups
            other == IF op = "move_x" THEN zGroups ELSE xGroups
            motors == IF op = "move_x" THEN <<"x_left", "x_right">> ELSE <<"z_axis">>
        IN  /\ mine <= Abs(AxisSteps)
            /\ other = 0
            /\ Returned => mine = Abs(AxisSteps)
            /\ mine > 0 => lastDir = IF AxisSteps > 0 THEN "FORWARD" ELSE "BACKWARD"
            /\ (mine > 0 /\ failures = 0) => lastGroup = motors
            /\ failures = 0 =>
                  \A m \in Motors :
                     calls[m] = IF \E k \in 1..Len(motors) : motors[k] = m
                                THEN mine ELSE 0

\* move_x(1.0) from {0, 0} at 80 steps/mm: 80 groups, each stepping
\* x_left and x_right; and the call has returned.
C5_Witness ==
    /\ op = "move_x" /\ Returned /\ steps_per_mm_x = 80
    /\ pre = Zero /\ mm = UnitsPerMm
    /\ xGroups = 80 /\ calls["x_left"] = 80 /\ calls["x_right"] = 80
    /\ lastDir = "FORWARD"
    /\ position = [x |-> UnitsPerMm, z |-> 0]

\* C6 as stated: after move_x / move_z has returned, Position of that
\* axis has increased by the requested distance, whatever the distance.
C6_AsStated ==
    (op \in AxisOps /\ Returned) =>
        /\ position[AxisOf(op)] = pre[AxisOf(op)] + mm
        /\ position[OtherAxis(AxisOf(op))] = pre[OtherAxis(AxisOf(op))]

\* C6 (amended): after move_x / move_z has returned with a non-zero step
\* count, Position of that axis has increased by exactly the requested
\* distance (not by steps / steps_per_mm); with a zero step count it is
\* unchanged; Position of the other axis is unchanged in both cases.
C6_AxisCommitsRequested ==
    (op \in AxisOps /\ Returned) =>
        /\ position[AxisOf(op)] =
              IF AxisSteps # 0 THEN pre[AxisOf(op)] + mm ELSE pre[AxisOf(op)]
        /\ position[OtherAxis(AxisOf(op))] = pre[OtherAxis(AxisOf(op))]

\* A returned move whose distance is not a whole number of steps, from a
\* position other than zero: the requested distance was added.
C6_Witness ==
    /\ op = "move_x" /\ Returned /\ AxisSteps # 0
    /\ AxisSteps * UnitsPerMm # mm * steps_per_mm_x
    /\ pre.x # 0 /\ pre.z # 0
    /\ position.x = pre.x + mm

\* C7 as stated: between operations Position equals the sum of the
\* deltas of all calls that returned since construction or the last Home.
C7_AsStated == pc = "idle" => position = issued

\* C7 (amended): between operations Position on each axis equals the sum
\* of the deltas of the move_to calls that returned and of the move_x /
\* move_z calls that returned with a non-zero step count, since
\* construction or the last Home.
C7_PositionIsCommittedSum == pc = "idle" => position = committed

\* Calls have moved Position, and a call that rounded to zero steps has
\* returned without its distance being added.
C7_Witness ==
    /\ pc = "idle" /\ op = "move_to" /\ outcome = "returned"
    /\ position = committed /\ position.x # 0 /\ position.z # 0
    /\ issued # committed

\* C8: move_x(d) followed by move_x(-d) returns Position.x to its
\* original value and leaves Position.z unchanged.
C8_RoundTrip ==
    (op = "move_x" /\ Returned /\ trip.on) => position = trip.start

\* The second leg of a round trip, of a distance that is not a tie of the
\* rounding, has stepped back and returned to where the first leg began.
C8_Witness ==
    /\ op = "move_x" /\ Returned /\ trip.on
    /\ xGroups > 0 /\ pre # position /\ position = trip.start
    /\ 2 * Abs(mm) * steps_per_mm_x # UnitsPerMm

\* C9 as stated: a move in which a driver step call failed still emits
\* all its step groups and updates Position as if every step succeeded.
C9_AsStated ==
    (op \in AxisOps /\ failures > 0 /\ pc = "idle") =>
        /\ xGroups + zGroups = Abs(AxisSteps)
        /\ position[AxisOf(op)] = pre[AxisOf(op)] + mm

\* C9 (amended): when a driver step call fails in the middle of a move,
\* the move neither retries nor rolls back, and it does not go on: the
\* exception leaves the move at once, no further motor step or wait is
\* issued (the failing group has no wait), the steps already issued stay
\* issued, and Position keeps its pre-move value.
C9_FailureAbortsMove ==
    failures > 0 =>
        /\ pc = "idle" /\ outcome = "raised"
        /\ failures = 1
        /\ position = pre
        /\ waits = xGroups + zGroups - 1
        /\ \E bad \in Motors :
              /\ phys[bad] = calls[bad] - 1 /\ stubs[bad] = 0
              /\ \A m \in Motors \ {bad} : phys[m] + stubs[m] = calls[m]
        /\ op \in AxisOps => xGroups + zGroups <= Abs(AxisSteps)
        /\ op = "move_to" => xGroups <= ToStepsX /\ zGroups <= ToStepsZ

\* A failure of x_right in the third group of a longer move_x: x_left
\* has stepped three times, x_right twice.
C9_Witness ==
    /\ failures > 0 /\ op = "move_x"
    /\ xGroups = 3 /\ Abs(AxisSteps) > 3
    /\ phys["x_left"] = 3 /\ phys["x_right"] = 2 /\ calls["x_right"] = 3
    /\ position = pre

\* C10: a motor whose channel was not resolved (no hardware, unknown
\* channel, name absent from the map) is never driven and every step of
\* it is a stub line; a move of unresolved motors only never fails, and
\* a returned move has emitted the same number of step groups and
\* updated Position the same way whatever was resolved.
Unresolved(m) == ~REAL_HARDWARE \/ m \notin DOMAIN steppers \/ steppers[m] = "None"
C10_UnresolvedIsNoOp ==
    /\ \A m \in Motors : Unresolved(m) => phys[m] = 0 /\ stubs[m] = calls[m]
    /\ (op = "move_z" /\ Unresolved("z_axis")) => failures = 0 /\ outcome # "raised"
    /\ (op = "move_x" /\ Unresolved("x_left") /\ Unresolved("x_right")) => failures = 0
    /\ (op \in AxisOps /\ Returned) =>
          /\ xGroups + zGroups = Abs(AxisSteps)
          /\ position[AxisOf(op)] =
                IF AxisSteps # 0 THEN pre[AxisOf(op)] + mm ELSE pre[AxisOf(op)]
    /\ (op = "move_to" /\ Returned) =>
          /\ xGroups = ToStepsX /\ zGroups = ToStepsZ
          /\ position = [x |-> x_mm, z |-> z_mm]

\* With the hardware present and x_left resolved, z_axis is not (the
\* name is absent from the map): move_z(1.0) at 100 steps/mm has
\* returned after 100 groups of stub lines and Position.z is up by 1.0.
C10_Witness ==
    /\ REAL_HARDWARE /\ "x_left" \in DOMAIN steppers /\ steppers["x_left"] # "None"
    /\ "z_axis" \notin DOMAIN steppers
    /\ op = "move_z" /\ Returned /\ steps_per_mm_z = 100 /\ mm = UnitsPerMm
    /\ zGroups = 100 /\ stubs["z_axis"] = 100 /\ phys["z_axis"] = 0
    /\ position.z = pre.z + UnitsPerMm

\* C11: from any Position, the reset (the panel's Home action) leaves
\* Position at exactly {0, 0} and issues no driver step call and no delay.
C11_HomeResets ==
    op = "home" =>
        /\ Returned
        /\ position = Zero
        /\ calls = NoCount /\ phys = NoCount /\ stubs = NoCount
        /\ xGroups = 0 /\ zGroups = 0 /\ waits = 0 /\ failures = 0

\* Home from a position off zero on both axes.
C11_Witness ==
    /\ op = "home" /\ Returned /\ pre.x # 0 /\ pre.z # 0 /\ position = Zero

MoveOps == {"move_x", "move_z", "move_to"}

\* C12: Position is never partially committed: while move_x, move_z or
\* move_to is emitting step groups Position equals its pre-move value on
\* both axes; it differs from it only once the call has returned after
\* its last step group; a move cut short by an error leaves it unchanged.
C12_NoPartialCommit ==
    op \in MoveOps =>
        /\ pc # "idle" => position = pre
        /\ outcome = "raised" => position = pre
        /\ position # pre =>
              /\ Returned
              /\ op \in AxisOps => xGroups + zGroups = Abs(AxisSteps)
              /\ op = "move_to" => xGroups = ToStepsX /\ zGroups = ToStepsZ

\* A move_to off target on both axes is between two step groups, after
\* groups of both axes; and so far Position has not moved.
C12_Witness ==
    /\ op = "move_to" /\ pc = "mt_x"
    /\ xGroups > 0 /\ zGroups > 0 /\ xGroups < ToStepsX
    /\ x_mm # pre.x /\ z_mm # pre.z
    /\ position = pre

IsStep(ev) == ev # WaitEvent
WaitsOf(tr) == Cardinality({k \in 1..Len(tr) : tr[k] = WaitEvent})
LastEvents(tr, n) == SubSeq(tr, Len(tr) - n + 1, Len(tr))

\* C13: in the event trace of a move every step group is followed by
\* exactly one wait before any motor step of the next group, so there are
\* as many waits as step groups (a group cut short by a driver call that
\* raised ends the trace and has none); an iteration of move_to that
\* steps both axes gives X group, wait, Z group, wait.
C13_OneWaitPerGroup ==
    op \in MoveOps =>
        /\ WaitsOf(trace) = waits
        /\ waits = xGroups + zGroups - failures
        /\ \A k \in 1..Len(trace) :
              /\ trace[k] = WaitEvent =>
                    k > 1 /\ trace[k - 1][1] \in {"x_right", "z_axis"}
              /\ trace[k][1] \in {"x_right", "z_axis"} =>
                    k < Len(trace) /\ trace[k + 1] = WaitEvent
              /\ trace[k][1] = "x_left" =>
                    \/ k < Len(trace) /\ trace[k + 1] = <<"x_right", trace[k][2]>>
                    \/ k = Len(trace) /\ failures > 0
              /\ trace[k][1] = "x_right" => k > 1 /\ trace[k - 1][1] = "x_left"
        /\ (pc = "mt_while" /\ steppedX /\ lastGroup = <<"z_axis">>) =>
              LastEvents(trace, 5) = << <<"x_left", sx>>, <<"x_right", sx>>, WaitEvent,
                                  <<"z_axis", sz>>, WaitEvent >>

\* A move_to has just ended an iteration that stepped both axes, in
\* different directions, and not its first.
C13_Witness ==
    /\ op = "move_to" /\ pc = "mt_while" /\ steppedX /\ lastGroup = <<"z_axis">>
    /\ sx # sz /\ failures = 0 /\ Len(trace) > 10
    /\ WaitsOf(trace) = xGroups + zGroups

Max(a, b) == IF a > b THEN a ELSE b
\* The step groups of a trace in order: "X" for a step of x_left, which
\* opens an X group, "Z" for a step of z_axis.
RECURSIVE GroupsOf(_)
GroupsOf(tr) ==
    IF tr = << >> THEN << >>
    ELSE (IF tr[1][1] = "x_left" THEN <<"X">>
          ELSE IF tr[1][1] = "z_axis" THEN <<"Z">> ELSE << >>)
         \o GroupsOf(SubSeq(tr, 2, Len(tr)))
NoTwoInARow(g, a) == \A k \in 1..(Len(g) - 1) : ~(g[k] = a /\ g[k + 1] = a)

\* C14: in move_to the axis with the larger absolute step count emits a
\* group in every iteration of the loop, which runs max(|x_steps|,
\* |z_steps|) times; the axis with the smaller count never emits two
\* groups in a row; for 5 X steps and 2 Z steps the groups are
\* X, X, Z, X, X, Z, X.
C14_EvenInterleave ==
    (op = "move_to" /\ failures = 0) =>
        /\ iters <= Max(ToStepsX, ToStepsZ)
        /\ Returned => iters = Max(ToStepsX, ToStepsZ)
        /\ (pc = "mt_while" \/ Returned) =>
              /\ ToStepsX >= ToStepsZ => xGroups = iters
              /\ ToStepsZ >= ToStepsX => zGroups = iters
        /\ ToStepsZ < ToStepsX => NoTwoInARow(GroupsOf(trace), "Z")
        /\ ToStepsX < ToStepsZ => NoTwoInARow(GroupsOf(trace), "X")
        /\ (Returned /\ ToStepsX = 5 /\ ToStepsZ = 2) =>
              GroupsOf(trace) = <<"X", "X", "Z", "X", "X", "Z", "X">>

\* A move_to of 5 X steps and 2 Z steps has returned after 5 iterations.
C14_Witness ==
    /\ op = "move_to" /\ Returned /\ failures = 0
    /\ ToStepsX = 5 /\ ToStepsZ = 2 /\ iters = 5
    /\ GroupsOf(trace) = <<"X", "X", "Z", "X", "X", "Z", "X">>

ToSignedX == StepsFor(x_mm - pre.x, steps_per_mm_x)
ToSignedZ == StepsFor(z_mm - pre.z, steps_per_mm_z)
DirectionFits(signed, direction) ==
    \/ signed > 0 /\ direction = "FORWARD"
    \/ signed < 0 /\ direction = "BACKWARD"

\* C15: in move_to every step of an X motor is Forward when the signed X
\* step count is positive and Backward when it is negative, likewise
\* every step of the Z motor for the signed Z step count; an axis whose
\* step count is zero is never stepped, and no axis is stepped in two
\* directions within one move.
C15_MoveToDirections ==
    op = "move_to" =>
        /\ \A k \in 1..Len(trace) :
              /\ trace[k][1] \in {"x_left", "x_right"} =>
                    DirectionFits(ToSignedX, trace[k][2])
              /\ trace[k][1] = "z_axis" => DirectionFits(ToSignedZ, trace[k][2])
        /\ Cardinality({trace[k][2] : k \in {n \in 1..Len(trace) :
                               trace[n][1] \in {"x_left", "x_right"}}}) <= 1
        /\ Cardinality({trace[k][2] : k \in {n \in 1..Len(trace) :
                               trace[n][1] = "z_axis"}}) <= 1
        /\ ToSignedX = 0 => xGroups = 0 /\ calls["x_left"] = 0 /\ calls["x_right"] = 0
        /\ ToSignedZ = 0 => zGroups = 0 /\ calls["z_axis"] = 0

\* A move_to with X going back and Z going forward has returned, both
\* axes stepped more than once.
C15_Witness ==
    /\ op = "move_to" /\ Returned
    /\ ToSignedX < -1 /\ ToSignedZ > 1
    /\ \E k \in 1..Len(trace) : trace[k] = <<"x_right", "BACKWARD">>
    /\ \E k \in 1..Len(trace) : trace[k] = <<"z_axis", "FORWARD">>

JogAndHomeControls ==
    {"btn_left", "btn_right", "btn_up", "btn_down", "btn_home", "spinbox"}
HasStep(tr) == \E k \in 1..Len(tr) : tr[k] # WaitEvent

\* C16, as stated: after E-STOP the four jog buttons, the Home button and
\* the step-size spinbox are disabled, and no move_x or move_z call and
\* no motor step is made afterwards.
C16_AsStated ==
    estopped =>
        /\ \A w \in JogAndHomeControls : widgets[w] = DISABLED
        /\ ~(afterStop /\ op \in AxisOps)
        /\ ~(afterStop /\ HasStep(trace))

\* Net signed number of steps of motor m in the trace of the call.
NetSigned(m) ==
    Cardinality({k \in 1..Len(trace) : trace[k] = <<m, "FORWARD">>})
        - Cardinality({k \in 1..Len(trace) : trace[k] = <<m, "BACKWARD">>})
\* The driver call for x_right raised: it was called and did not return.
RightRaised ==
    failures > 0 /\ calls["x_right"] = phys["x_right"] + stubs["x_right"] + 1

\* C17, as stated: after every operation x_left and x_right have made the
\* same net signed number of steps, and every step of x_left is followed
\* at once by a step of x_right in the same direction.
C17_AsStated ==
    /\ pc = "idle" => NetSigned("x_left") = NetSigned("x_right")
    /\ \A k \in 1..Len(trace) :
          trace[k][1] = "x_left" =>
             k < Len(trace) /\ trace[k + 1] = <<"x_right", trace[k][2]>>

\* C17, amended: each step of x_left is followed at once by a step of
\* x_right in the same direction and the net signed steps of the two are
\* equal, unless the driver call for x_right raised: then the move is
\* aborted with the step of x_left made and not undone, x_left exactly one
\* step ahead in the direction of the move. Home steps no motor.
C17_GangedUnlessRightRaised ==
    /\ \A k \in 1..Len(trace) :
          trace[k][1] = "x_left" =>
             \/ k < Len(trace) /\ trace[k + 1] = <<"x_right", trace[k][2]>>
             \/ k = Len(trace) /\ RightRaised
    /\ ~RightRaised => NetSigned("x_left") = NetSigned("x_right")
    /\ RightRaised =>
          /\ outcome = "raised" /\ op \in MoveOps
          /\ trace # << >> /\ trace[Len(trace)][1] = "x_left"
          /\ NetSigned("x_left") - NetSigned("x_right") =
                IF trace[Len(trace)][2] = "FORWARD" THEN 1 ELSE -1
    /\ op = "home" => trace = << >>

\* A move_to was aborted by x_right after some complete groups of both
\* axes: x_left is one step ahead.
C17_Witness ==
    /\ op = "move_to" /\ outcome = "raised" /\ RightRaised
    /\ xGroups > 1 /\ zGroups > 0
    /\ Abs(NetSigned("x_left") - NetSigned("x_right")) = 1

IsPrefix(s, t) == Len(s) <= Len(t) /\ s = SubSeq(t, 1, Len(s))
\* n step groups of the motors in names, each followed by a wait.
PacedTrace(names, direction, n) ==
    [k \in 1..(n * (Len(names) + 1)) |->
        LET j == ((k - 1) % (Len(names) + 1)) + 1
        IN  IF j <= Len(names) THEN <<names[j], direction>> ELSE WaitEvent]
\* The trace of move_axis(axis, d), and the position it ends in from p.
AxisTrace(axis, d) ==
    LET n == StepsFor(d, StepsPerMm(axis))
    IN  PacedTrace(AxisMotors(axis), IF n > 0 THEN "FORWARD" ELSE "BACKWARD", Abs(n))
AxisEnd(p, axis, d) ==
    IF ReturnsEarly(StepsFor(d, StepsPerMm(axis))) THEN p
    ELSE [p EXCEPT ![axis] = AxisCommit(@, d)]
\* The running or last call is a move_to whose target differs from the
\* position it started at on this axis at most.
SingleAxisTo(axis) == op = "move_to" /\ [x |-> x_mm, z |-> z_mm][OtherAxis(axis)] = pre[OtherAxis(axis)]
\* The distance of that move_to on the axis, as move_to computes it from
\* its target: dx = x_mm - position["x"], dz = z_mm - position["z"].
ToDistance(axis) == Delta([x |-> x_mm, z |-> z_mm][axis], pre[axis])

\* C18, as stated: a single-axis move_to makes the steps and waits of
\* move_axis with the same distance from the same state and ends in the
\* same position. The lengths here are multiples of 1/UnitsPerMm mm, for
\* which the target position + d and the distance target - position are
\* exact, so the distance of the move_to is d.
C18_AsStated ==
    \A axis \in {"x", "z"} :
        (SingleAxisTo(axis) /\ Returned) =>
            /\ trace = AxisTrace(axis, ToDistance(axis))
            /\ position = AxisEnd(pre, axis, ToDistance(axis))

\* C18, amended: with d the distance move_to computes from its target,
\* d = target - position, a single-axis move_to makes the trace of
\* move_axis(axis, d) from the same state, AxisTrace(axis, d) (a beginning
\* of it when a driver call raises), and ends in the position of
\* move_axis, AxisEnd(pre, axis, d), unless d is not zero and rounds to
\* zero steps: then neither steps, move_axis leaves the position alone and
\* move_to writes its target.
C18_SingleAxisAgrees ==
    /\ op \in AxisOps =>
          /\ IsPrefix(trace, AxisTrace(AxisOf(op), mm))
          /\ Returned => /\ trace = AxisTrace(AxisOf(op), mm)
                         /\ position = AxisEnd(pre, AxisOf(op), mm)
          /\ outcome = "raised" => position = pre
    /\ \A axis \in {"x", "z"} :
          SingleAxisTo(axis) =>
             LET d == ToDistance(axis)
                 n == StepsFor(d, StepsPerMm(axis))
             IN  /\ IsPrefix(trace, AxisTrace(axis, d))
                 /\ outcome = "raised" => position = pre
                 /\ Returned =>
                       /\ trace = AxisTrace(axis, d)
                       /\ position = [pre EXCEPT ![axis] = @ + d]
                       /\ (n # 0 \/ d = 0) => position = AxisEnd(pre, axis, d)
                       /\ (n = 0 /\ d # 0) =>
                             /\ trace = << >>
                             /\ AxisEnd(pre, axis, d) = pre
                             /\ position # pre

\* A move_to along X alone has returned after several step groups, in
\* the position move_x ends in.
C18_Witness ==
    /\ SingleAxisTo("x") /\ Returned /\ x_mm # pre.x
    /\ xGroups > 1 /\ zGroups = 0
    /\ trace = AxisTrace("x", x_mm - pre.x)
    /\ position = AxisEnd(pre, "x", x_mm - pre.x)

\* C19: a move_to called with the target of the move_to just before it,
\* which returned, makes no driver step and no wait, and returns with
\* the position equal to the target.
C19_MoveToIdempotent ==
    (op = "move_to" /\ again) =>
        /\ pre = [x |-> x_mm, z |-> z_mm]
        /\ position = [x |-> x_mm, z |-> z_mm]
        /\ trace = << >> /\ waits = 0 /\ calls = NoCount
        /\ xGroups = 0 /\ zGroups = 0 /\ iters = 0
        /\ pc \in {"mt_while", "idle"}
        /\ pc = "idle" => Returned

\* The second of two equal move_to calls has returned, away from the
\* origin on both axes.
C19_Witness ==
    /\ op = "move_to" /\ again /\ Returned
    /\ x_mm # 0 /\ z_mm # 0
    /\ position = [x |-> x_mm, z |-> z_mm] /\ trace = << >>

RawOps == {"motor_test", "motor_test_gui"}

\* C20: raw stepping from the test console and from the motor test panel
\* never changes the position: during and after any raw call, on any
\* motor and in either direction, the position is the one from before,
\* although the motor has been commanded to step.
C20_RawSteppingKeepsPosition ==
    op \in RawOps =>
        /\ position = pre
        /\ issued = Zero /\ committed = Zero
        /\ pc = op => phys[motor] + stubs[motor] = i
        /\ \A k \in 1..Len(trace) :
              trace[k] \in {WaitEvent, <<motor, step_direction>>}

\* A raw call of several backward steps on a driven motor has returned,
\* the position as before.
C20_Witness ==
    /\ op \in RawOps /\ Returned
    /\ phys[motor] >= 2 /\ step_direction = BACKWARD
    /\ position = pre

====
